---- MODULE Spec2Model ----
(***************************************************************************)
(* lc_find.py: the Ansible module that lists AWS Auto Scaling launch       *)
(* configurations, filters them by a name regex, sorts them by name and    *)
(* slices the sorted list.                                                 *)
(*                                                                         *)
(* Python strings whose content matters (names, patterns, slice bounds)    *)
(* are sequences of one-character strings.  An optional value is a         *)
(* sequence of length 0 (Python None, or a missing key) or 1.              *)
(***************************************************************************)
EXTENDS Integers, Sequences, FiniteSets, TLC

VARIABLES
    args,           \* the arguments the caller supplies (lines 10-20)
    source,         \* what the aws command will do: its exit and its stdout
    pc,             \* the step of main() to run next, "done" once it ended
    params,         \* module.params, as read on lines 24-28
    lc_cmd_result,  \* line 29
    lc_result,      \* line 30
    results,        \* lines 31-49
    collected,      \* results as the loop of lines 32-37 left it
    filtered,       \* results as the filter of lines 38-40 left it
    ordered,        \* results as the sort of lines 41-42 left it
    outcome,        \* how the run ended: exit_json, fail_json or an exception
    fetchCalls      \* the number of times the aws command was run

vars == <<args, source, pc, params, lc_cmd_result, lc_result, results,
          collected, filtered, ordered, outcome, fetchCalls>>

\* ------------------------------------------------------------------ bounds

\* Longest LaunchConfigurations list the external source returns.
MaxRecords == 3

\* Largest magnitude of an integer supplied as sort_start / sort_end.
MaxBound == 4

\* Longest name_regex pattern.
MaxRegexLen == 3

\* ------------------------------------------------------- optional values

None == <<>>

Some(x) == <<x>>

IsNone(o) == o = <<>>

Val(o) == o[1]

\* ------------------------------------------------------------ characters

Digits == <<"0", "1", "2", "3", "4", "5", "6", "7", "8", "9">>

IsDigit(c) == \E i \in 1..10 : Digits[i] = c

DigitValue(c) == (CHOOSE i \in 1..10 : Digits[i] = c) - 1

\* Code point of the characters the model uses (Python compares str by
\* code point).
Ord(c) ==
    CASE c = " " -> 32
      [] c = "*" -> 42
      [] c = "+" -> 43
      [] c = "-" -> 45
      [] c = "." -> 46
      [] IsDigit(c) -> 48 + DigitValue(c)
      [] c = "a" -> 97
      [] c = "b" -> 98
      [] c = "x" -> 120

\* Python's str `<`: lexicographic by code point, a proper prefix is smaller.
RECURSIVE StrLess(_, _)
StrLess(s, t) ==
    IF t = <<>> THEN FALSE
    ELSE IF s = <<>> THEN TRUE
    ELSE IF Ord(Head(s)) # Ord(Head(t)) THEN Ord(Head(s)) < Ord(Head(t))
    ELSE StrLess(Tail(s), Tail(t))

\* ------------------------------------------------------------- int(str)

RECURSIVE LStrip(_)
LStrip(s) ==
    IF s # <<>> /\ Head(s) = " " THEN LStrip(Tail(s)) ELSE s

RECURSIVE RStrip(_)
RStrip(s) ==
    IF s # <<>> /\ s[Len(s)] = " " THEN RStrip(SubSeq(s, 1, Len(s) - 1)) ELSE s

RECURSIVE DigitsValue(_, _)
DigitsValue(s, acc) ==
    IF s = <<>> THEN acc
    ELSE DigitsValue(Tail(s), 10 * acc + DigitValue(Head(s)))

\* int(s) for a str s: surrounding whitespace is stripped, one optional sign,
\* then at least one decimal digit.  None stands for ValueError.
PyInt(s) ==
    LET t == RStrip(LStrip(s))
        signed == t # <<>> /\ Head(t) \in {"+", "-"}
        body == IF signed THEN Tail(t) ELSE t
    IN  IF body = <<>> \/ \E i \in 1..Len(body) : ~IsDigit(body[i])
        THEN None
        ELSE IF signed /\ Head(t) = "-"
             THEN Some(0 - DigitsValue(body, 0))
             ELSE Some(DigitsValue(body, 0))

\* Truthiness of an optional str: None and "" are falsy.
Truthy(o) == ~IsNone(o) /\ Val(o) # <<>>

\* ----------------------------------------------------- re.compile, re.match

\* The pattern syntax modelled: literal characters, "." and the postfix "*".
PatternChars == {"a", "b", ".", "*"}

\* re.compile(p): the pattern as a sequence of items, or None for re.error
\* ("nothing to repeat" for a "*" with no item before it, "multiple repeat"
\* for a "*" after a repeat).
RECURSIVE ParseItems(_, _)
ParseItems(p, acc) ==
    IF p = <<>> THEN Some(acc)
    ELSE IF Head(p) = "*"
         THEN IF acc = <<>> \/ acc[Len(acc)].star
              THEN None
              ELSE ParseItems(Tail(p), [acc EXCEPT ![Len(acc)].star = TRUE])
         ELSE ParseItems(Tail(p), Append(acc, [atom |-> Head(p), star |-> FALSE]))

ReCompile(p) == ParseItems(p, <<>>)

AtomMatches(atom, c) == atom = "." \/ atom = c

\* The backtracking matcher: items i.. of the pattern against s from
\* position j.  The pattern running out is success wherever in s it happens.
RECURSIVE MatchAt(_, _, _, _)
MatchAt(items, i, s, j) ==
    IF i > Len(items) THEN TRUE
    ELSE IF items[i].star
         THEN \/ /\ j <= Len(s)
                 /\ AtomMatches(items[i].atom, s[j])
                 /\ MatchAt(items, i, s, j + 1)
              \/ MatchAt(items, i + 1, s, j)
         ELSE /\ j <= Len(s)
              /\ AtomMatches(items[i].atom, s[j])
              /\ MatchAt(items, i + 1, s, j + 1)

\* A search: the match may start at any position of s.
ReSearch(items, s) == \E j \in 1..(Len(s) + 1) : MatchAt(items, 1, s, j)

\* regex.match(s): truthy iff the pattern matches at the start of s.
ReMatch(items, s) == MatchAt(items, 1, s, 1)

\* ------------------------------------------------------ list.sort, slicing

Reverse(seq) == [i \in 1..Len(seq) |-> seq[Len(seq) + 1 - i]]

\* e goes after every element whose name is not greater: equal names keep
\* their order (the sort is stable).
RECURSIVE InsertByName(_, _)
InsertByName(sorted, e) ==
    IF sorted = <<>> THEN <<e>>
    ELSE IF StrLess(e.name, Head(sorted).name)
         THEN <<e>> \o sorted
         ELSE <<Head(sorted)>> \o InsertByName(Tail(sorted), e)

RECURSIVE StableSortByName(_)
StableSortByName(seq) ==
    IF seq = <<>> THEN <<>>
    ELSE InsertByName(StableSortByName(SubSeq(seq, 1, Len(seq) - 1)), seq[Len(seq)])

\* The order ignores reverse.
PySortIgnoringReverse(seq, reverse) == StableSortByName(seq)

\* seq.sort(key=lambda e: e['name'], reverse=reverse): a reversed sort is the
\* sort of the reversed list, reversed, which keeps it stable.
PySort(seq, reverse) ==
    IF reverse THEN Reverse(StableSortByName(Reverse(seq)))
    ELSE StableSortByName(seq)

\* A slice index as the slice adjusts it: a missing one is the default, a
\* negative one counts from the end, and the result is clamped to 0..length.
SliceIndex(o, length, default) ==
    IF IsNone(o) THEN default
    ELSE IF Val(o) < 0
         THEN (IF Val(o) + length < 0 THEN 0 ELSE Val(o) + length)
         ELSE (IF Val(o) > length THEN length ELSE Val(o))

\* The slice with its end taken inclusively.
PySliceInclusive(seq, start, end) ==
    LET lo == SliceIndex(start, Len(seq), 0)
        hi == SliceIndex(end, Len(seq), Len(seq))
        top == IF hi < Len(seq) THEN hi + 1 ELSE hi
    IN  IF lo < top THEN SubSeq(seq, lo + 1, top) ELSE <<>>

\* seq[start:end], start and end optional integers.
PySlice(seq, start, end) ==
    LET lo == SliceIndex(start, Len(seq), 0)
        hi == SliceIndex(end, Len(seq), Len(seq))
    IN  IF lo < hi THEN SubSeq(seq, lo + 1, hi) ELSE <<>>

\* ------------------------------------------------- the steps of main()

\* The value of the region argument, under its name or an alias.
ResolveRegion(a) ==
    IF ~IsNone(a.region) THEN a.region
    ELSE IF ~IsNone(a.aws_region) THEN a.aws_region
    ELSE a.ec2_region

\* No argument is required.
NothingRequired(a) == FALSE

\* region is required=True: AnsibleModule fails when it is supplied under
\* neither its name nor an alias.
MissingRequired(a) == IsNone(ResolveRegion(a))

\* module.params: the aliases resolved, the default of sort_order applied.
ModuleParams(a) ==
    [region     |-> ResolveRegion(a),
     name_regex |-> a.name_regex,
     sort       |-> a.sort,
     sort_order |-> IF IsNone(a.sort_order) THEN "ascending" ELSE Val(a.sort_order),
     sort_start |-> a.sort_start,
     sort_end   |-> a.sort_end]

\* exc is "" when the step returns normally, else the exception raised.
Step(exc, val) == [exc |-> exc, val |-> val]

\* The command's stdout, whatever its exit status.
CheckOutputIgnoringExit(src) ==
    IF src.exit = "oserror" THEN Step("OSError", src.stdout)
    ELSE Step("", src.stdout)

\* subprocess.check_output([...]): the command's stdout, CalledProcessError
\* on a non-zero exit, OSError when the command cannot be run.
CheckOutput(src) ==
    IF src.exit = "nonzero" THEN Step("CalledProcessError", src.stdout)
    ELSE IF src.exit = "oserror" THEN Step("OSError", src.stdout)
    ELSE Step("", src.stdout)

\* json.loads(text): ValueError unless the text is a JSON document.
JsonLoads(text) ==
    IF text.wellformed THEN Step("", text.doc) ELSE Step("ValueError", text.doc)

\* The loop made lenient: no list is no records, and an entry lacking a key
\* is skipped.
CollectRecordsLenient(doc) ==
    IF IsNone(doc.LaunchConfigurations) THEN Step("", <<>>)
    ELSE LET lcs == SelectSeq(Val(doc.LaunchConfigurations),
                        LAMBDA e : /\ ~IsNone(e.LaunchConfigurationARN)
                                   /\ ~IsNone(e.LaunchConfigurationName))
         IN  Step("", [i \in 1..Len(lcs) |->
                         [arn  |-> Val(lcs[i].LaunchConfigurationARN),
                          name |-> Val(lcs[i].LaunchConfigurationName)]])

\* The loop over lc_result['LaunchConfigurations']: KeyError when the
\* document has no such key, or at the first entry lacking a key (the ARN is
\* read first).
CollectRecords(doc) ==
    IF IsNone(doc.LaunchConfigurations) THEN Step("KeyError", <<>>)
    ELSE LET lcs == Val(doc.LaunchConfigurations)
         IN  IF \E i \in 1..Len(lcs) :
                    \/ IsNone(lcs[i].LaunchConfigurationARN)
                    \/ IsNone(lcs[i].LaunchConfigurationName)
             THEN Step("KeyError", <<>>)
             ELSE Step("", [i \in 1..Len(lcs) |->
                              [arn  |-> Val(lcs[i].LaunchConfigurationARN),
                               name |-> Val(lcs[i].LaunchConfigurationName)]])

\* The filter: re.error from re.compile, else the records whose name the
\* pattern matches, in order.  A name_regex of None or "" filters nothing.
FilterRecords(rs, name_regex) ==
    IF ~Truthy(name_regex) THEN Step("", rs)
    ELSE LET regex == ReCompile(Val(name_regex))
         IN  IF IsNone(regex) THEN Step("re.error", rs)
             ELSE Step("", SelectSeq(rs, LAMBDA r : ReMatch(Val(regex), r.name)))

\* The sort, whatever sort is.
SortRecordsUngated(rs, sort, sort_order) ==
    PySort(rs, sort_order = "descending")

\* The sort: only when sort is true.
SortRecords(rs, sort, sort_order) ==
    IF sort = Some(TRUE) THEN PySort(rs, sort_order = "descending") ELSE rs

\* The slice, whatever sort is.
SliceRecordsUngated(rs, sort, sort_start, sort_end) ==
    LET lo == IF Truthy(sort_start) THEN PyInt(Val(sort_start)) ELSE None
        hi == IF Truthy(sort_end) THEN PyInt(Val(sort_end)) ELSE None
    IN  IF (Truthy(sort_start) /\ IsNone(lo)) \/ (Truthy(sort_end) /\ IsNone(hi))
        THEN Step("ValueError", rs)
        ELSE Step("", PySlice(rs, lo, hi))

\* The slice (the try block): only when sort is true, and only the bounds
\* that are truthy are converted.  int() of a str that is no integer raises
\* ValueError.
SliceRecords(rs, sort, sort_start, sort_end) ==
    IF sort = Some(TRUE) /\ Truthy(sort_start) /\ Truthy(sort_end)
    THEN LET lo == PyInt(Val(sort_start))
             hi == PyInt(Val(sort_end))
         IN  IF IsNone(lo) \/ IsNone(hi) THEN Step("ValueError", rs)
             ELSE Step("", PySlice(rs, lo, hi))
    ELSE IF sort = Some(TRUE) /\ Truthy(sort_start)
    THEN LET lo == PyInt(Val(sort_start))
         IN  IF IsNone(lo) THEN Step("ValueError", rs)
             ELSE Step("", PySlice(rs, lo, None))
    ELSE IF sort = Some(TRUE) /\ Truthy(sort_end)
    THEN LET hi == PyInt(Val(sort_end))
         IN  IF IsNone(hi) THEN Step("ValueError", rs)
             ELSE Step("", PySlice(rs, None, hi))
    ELSE Step("", rs)

\* ----------------------------------------------------- how a run can end

\* step is the step of main() at which the run ended.
Running == [kind |-> "running", exc |-> "", msg |-> "", step |-> "", results |-> None]

\* module.exit_json(results=rs)
ExitJson(rs, step) ==
    [kind |-> "exit_json", exc |-> "", msg |-> "", step |-> step, results |-> Some(rs)]

\* module.fail_json(msg=msg)
FailJson(msg, step) ==
    [kind |-> "fail_json", exc |-> "", msg |-> msg, step |-> step, results |-> None]

\* An exception nothing catches: the traceback ends the process.
Uncaught(exc, step) ==
    [kind |-> "exception", exc |-> exc, msg |-> "", step |-> step, results |-> None]

MsgMissingRegion == "missing required arguments: region"

MsgNumeric == "Please supply numeric values for sort_start and/or sort_end"

\* The arguments are all validated as the module is constructed.
ConstructFailureEager(a) ==
    IF MissingRequired(a) THEN Some(FailJson(MsgMissingRegion, "construct"))
    ELSE IF Truthy(a.name_regex) /\ IsNone(ReCompile(Val(a.name_regex)))
    THEN Some(FailJson("invalid name_regex", "construct"))
    ELSE IF \/ (Truthy(a.sort_start) /\ IsNone(PyInt(Val(a.sort_start))))
            \/ (Truthy(a.sort_end) /\ IsNone(PyInt(Val(a.sort_end))))
    THEN Some(FailJson(MsgNumeric, "construct"))
    ELSE None

\* AnsibleModule(argument_spec=...): how the construction fails, None when
\* it does not.  The argument spec gives region as the one required
\* argument; name_regex, sort_start and sort_end are taken as they come.
ConstructFailure(a) ==
    IF MissingRequired(a) THEN Some(FailJson(MsgMissingRegion, "construct")) ELSE None

\* The except clause of the try block: TypeError is the exception it handles.
SliceFailure(exc, step) ==
    IF exc = "TypeError" THEN FailJson(MsgNumeric, step) ELSE Uncaught(exc, step)

\* main() as one function of the arguments and the external source: how the
\* run ends.
MainOutcome(a, src) ==
    IF ~IsNone(ConstructFailure(a)) THEN Val(ConstructFailure(a))
    ELSE
    LET p == ModuleParams(a)
        out == CheckOutput(src)
    IN  IF out.exc # "" THEN Uncaught(out.exc, "fetch")
        ELSE
        LET doc == JsonLoads(out.val)
        IN  IF doc.exc # "" THEN Uncaught(doc.exc, "parse")
            ELSE
            LET col == CollectRecords(doc.val)
            IN  IF col.exc # "" THEN Uncaught(col.exc, "collect")
                ELSE
                LET fil == FilterRecords(col.val, p.name_regex)
                IN  IF fil.exc # "" THEN Uncaught(fil.exc, "filter")
                    ELSE
                    LET srt == SortRecords(fil.val, p.sort, p.sort_order)
                        sl == SliceRecords(srt, p.sort, p.sort_start, p.sort_end)
                    IN  IF sl.exc # "" THEN SliceFailure(sl.exc, "slice")
                        ELSE ExitJson(sl.val, "exit")

\* ------------------------------------------------------------ the inputs

\* The sequences over S of length at most n, without repetition.
DistinctSeqs(S, n) ==
    {q \in UNION {[1..k -> S] : k \in 0..n} :
        \A i, j \in 1..Len(q) : i # j => q[i] # q[j]}

\* The strings over S of length at most n.
Strings(S, n) == UNION {[1..k -> S] : k \in 0..n}

\* Launch configuration names: unique within one response.
Names == {<<"a">>, <<"a", "b">>, <<"b">>, <<"b", "a">>}

ArnOf(n) == <<"arn:">> \o n

Entry(n) ==
    [LaunchConfigurationName |-> Some(n), LaunchConfigurationARN |-> Some(ArnOf(n))]

\* Entries lacking a field.
EntryNoArn == [LaunchConfigurationName |-> Some(<<"a">>), LaunchConfigurationARN |-> None]

EntryNoName == [LaunchConfigurationName |-> None, LaunchConfigurationARN |-> Some(ArnOf(<<"b">>))]

Stdout(wellformed, lcs) ==
    [wellformed |-> wellformed, doc |-> [LaunchConfigurations |-> lcs]]

\* The command succeeds and prints a document listing launch configurations.
GoodSources ==
    {[exit |-> "ok", stdout |-> Stdout(TRUE, Some(l))] :
        l \in DistinctSeqs({Entry(n) : n \in Names}, MaxRecords)}

\* The command succeeds and prints a list in which an entry lacks a field.
MalformedEntrySources ==
    {[exit |-> "ok", stdout |-> Stdout(TRUE, Some(l))] :
        l \in {q \in DistinctSeqs({Entry(<<"a", "b">>), EntryNoArn, EntryNoName}, 2) :
                 \E i \in 1..Len(q) : q[i] \in {EntryNoArn, EntryNoName}}}

\* The command fails, or prints no JSON (nothing at all, say), or a
\* document without the list.
BrokenSources ==
    {[exit |-> "nonzero", stdout |-> Stdout(FALSE, None)],
     [exit |-> "oserror", stdout |-> Stdout(FALSE, None)],
     [exit |-> "ok", stdout |-> Stdout(FALSE, None)],
     [exit |-> "ok", stdout |-> Stdout(TRUE, None)]}

Sources == GoodSources \cup MalformedEntrySources \cup BrokenSources

RECURSIVE NatStr(_)
NatStr(n) ==
    IF n < 10 THEN <<Digits[n + 1]>>
    ELSE NatStr(n \div 10) \o <<Digits[(n % 10) + 1]>>

\* str(i)
IntStr(i) == IF i < 0 THEN <<"-">> \o NatStr(0 - i) ELSE NatStr(i)

\* Values of sort_start / sort_end: absent, the integers up to MaxBound in
\* magnitude, and strings int() accepts or rejects.
BoundArgs ==
    {None} \cup {Some(IntStr(i)) : i \in (0 - MaxBound)..MaxBound}
           \cup {Some(<<>>), Some(<<"x">>), Some(<<"1", "x">>), Some(<<"-">>),
                 Some(<<" ", "2">>), Some(<<"+", "1">>)}

FewBoundArgs == {None, Some(<<"1">>), Some(<<"-", "1">>), Some(<<"x">>)}

\* Values of name_regex: absent, or a pattern of length at most MaxRegexLen.
RegexArgs == {None} \cup {Some(p) : p \in Strings(PatternChars, MaxRegexLen)}

FewRegexArgs == {None, Some(<<"a">>), Some(<<"*">>)}

SortArgs == {None, Some(TRUE), Some(FALSE)}

SortOrderArgs == {None, Some("ascending"), Some("descending")}

Region == Some("eu-west-1")

\* region absent, or supplied under its name or one alias.
RegionArgs ==
    {[region |-> None, aws_region |-> None, ec2_region |-> None],
     [region |-> Region, aws_region |-> None, ec2_region |-> None],
     [region |-> None, aws_region |-> Region, ec2_region |-> None],
     [region |-> None, aws_region |-> None, ec2_region |-> Region]}

RegionGiven == [region |-> Region, aws_region |-> None, ec2_region |-> None]

Args(reg, name_regex, sort, sort_order, sort_start, sort_end) ==
    [region |-> reg.region, aws_region |-> reg.aws_region,
     ec2_region |-> reg.ec2_region, name_regex |-> name_regex, sort |-> sort,
     sort_order |-> sort_order, sort_start |-> sort_start, sort_end |-> sort_end]

NoParams ==
    [region |-> None, name_regex |-> None, sort |-> None,
     sort_order |-> "ascending", sort_start |-> None, sort_end |-> None]

NoStdout == Stdout(FALSE, None)

\* The state before main() runs, the arguments and the external source given.
Start(a, src) ==
    /\ args = a
    /\ source = src
    /\ pc = "construct"
    /\ params = NoParams
    /\ lc_cmd_result = NoStdout
    /\ lc_result = NoStdout.doc
    /\ results = <<>>
    /\ collected = <<>>
    /\ filtered = <<>>
    /\ ordered = <<>>
    /\ outcome = Running
    /\ fetchCalls = 0

\* Every argument varies, over a few values each; every kind of source.
Init ==
    \E reg \in RegionArgs, re \in FewRegexArgs, so \in SortArgs,
       ord \in SortOrderArgs, st \in FewBoundArgs, en \in FewBoundArgs,
       src \in Sources :
        Start(Args(reg, re, so, ord, st, en), src)

\* The slice: every pair of bounds, sort true or not, over every source.
InitSlice ==
    \E re \in FewRegexArgs, so \in SortArgs, ord \in {None, Some("descending")},
       st \in BoundArgs, en \in BoundArgs, src \in Sources :
        Start(Args(RegionGiven, re, so, ord, st, en), src)

\* The filter: every pattern, over every good source.
InitFilter ==
    \E re \in RegexArgs, so \in {None, Some(TRUE)}, src \in GoodSources :
        Start(Args(RegionGiven, re, so, None, None, None), src)

\* ------------------------------------------------------------ the actions

Finish(o) ==
    /\ pc' = "done"
    /\ outcome' = o

\* Lines 9-28: the argument spec, AnsibleModule(...), the parameters read.
Construct ==
    /\ pc = "construct"
    /\ IF ~IsNone(ConstructFailure(args))
       THEN /\ Finish(Val(ConstructFailure(args)))
            /\ UNCHANGED params
       ELSE /\ params' = ModuleParams(args)
            /\ pc' = "fetch"
            /\ UNCHANGED outcome
    /\ UNCHANGED <<args, source, lc_cmd_result, lc_result, results, collected,
                   filtered, ordered, fetchCalls>>

\* Line 29: the aws command is run.
Fetch ==
    /\ pc = "fetch"
    /\ fetchCalls' = fetchCalls + 1
    /\ LET r == CheckOutput(source)
       IN  IF r.exc # ""
           THEN /\ Finish(Uncaught(r.exc, "fetch"))
                /\ UNCHANGED lc_cmd_result
           ELSE /\ lc_cmd_result' = r.val
                /\ pc' = "parse"
                /\ UNCHANGED outcome
    /\ UNCHANGED <<args, source, params, lc_result, results, collected,
                   filtered, ordered>>

\* Line 30: its output is parsed.
Parse ==
    /\ pc = "parse"
    /\ LET r == JsonLoads(lc_cmd_result)
       IN  IF r.exc # ""
           THEN /\ Finish(Uncaught(r.exc, "parse"))
                /\ UNCHANGED lc_result
           ELSE /\ lc_result' = r.val
                /\ pc' = "collect"
                /\ UNCHANGED outcome
    /\ UNCHANGED <<args, source, params, lc_cmd_result, results, collected,
                   filtered, ordered, fetchCalls>>

\* Lines 31-37: the records are collected.
Collect ==
    /\ pc = "collect"
    /\ LET r == CollectRecords(lc_result)
       IN  IF r.exc # ""
           THEN /\ Finish(Uncaught(r.exc, "collect"))
                /\ UNCHANGED <<results, collected>>
           ELSE /\ results' = r.val
                /\ collected' = r.val
                /\ pc' = "filter"
                /\ UNCHANGED outcome
    /\ UNCHANGED <<args, source, params, lc_cmd_result, lc_result, filtered,
                   ordered, fetchCalls>>

\* Lines 38-40: the name filter.
Filter ==
    /\ pc = "filter"
    /\ LET r == FilterRecords(results, params.name_regex)
       IN  IF r.exc # ""
           THEN /\ Finish(Uncaught(r.exc, "filter"))
                /\ UNCHANGED <<results, filtered>>
           ELSE /\ results' = r.val
                /\ filtered' = r.val
                /\ pc' = "sort"
                /\ UNCHANGED outcome
    /\ UNCHANGED <<args, source, params, lc_cmd_result, lc_result, collected,
                   ordered, fetchCalls>>

\* Lines 41-42: the sort.
Sort ==
    /\ pc = "sort"
    /\ results' = SortRecords(results, params.sort, params.sort_order)
    /\ ordered' = results'
    /\ pc' = "slice"
    /\ UNCHANGED <<args, source, params, lc_cmd_result, lc_result, collected,
                   filtered, outcome, fetchCalls>>

\* Lines 43-51: the slice, in its try block.
Slice ==
    /\ pc = "slice"
    /\ LET r == SliceRecords(results, params.sort, params.sort_start, params.sort_end)
       IN  IF r.exc # ""
           THEN /\ Finish(SliceFailure(r.exc, "slice"))
                /\ UNCHANGED results
           ELSE /\ results' = r.val
                /\ pc' = "exit"
                /\ UNCHANGED outcome
    /\ UNCHANGED <<args, source, params, lc_cmd_result, lc_result, collected,
                   filtered, ordered, fetchCalls>>

\* Line 52: the results are emitted.
Exit ==
    /\ pc = "exit"
    /\ Finish(ExitJson(results, "exit"))
    /\ UNCHANGED <<args, source, params, lc_cmd_result, lc_result, results,
                   collected, filtered, ordered, fetchCalls>>

Next ==
    \/ Construct
    \/ Fetch
    \/ Parse
    \/ Collect
    \/ Filter
    \/ Sort
    \/ Slice
    \/ Exit

Spec == Init /\ [][Next]_vars

SpecSlice == InitSlice /\ [][Next]_vars

SpecFilter == InitFilter /\ [][Next]_vars

\* ------------------------------------------------ what the claims speak of

Done == pc = "done"

Emitted == outcome.kind = "exit_json"

Output == Val(outcome.results)

RegionSupplied ==
    ~(IsNone(args.region) /\ IsNone(args.aws_region) /\ IsNone(args.ec2_region))

SortTrue == args.sort = Some(TRUE)

Descending == args.sort_order = Some("descending")

\* The run got past the filter, and past the sort.
PastFilter == pc \in {"sort", "slice", "exit"} \/ (Done /\ outcome.step \in {"slice", "exit"})

PastSort == pc \in {"slice", "exit"} \/ (Done /\ outcome.step \in {"slice", "exit"})

\* The records the external source returned, when it returned a list of
\* complete entries.
SourceListed ==
    /\ source.exit = "ok"
    /\ source.stdout.wellformed
    /\ ~IsNone(source.stdout.doc.LaunchConfigurations)

SourceEntries == Val(source.stdout.doc.LaunchConfigurations)

EntryComplete(e) ==
    ~IsNone(e.LaunchConfigurationName) /\ ~IsNone(e.LaunchConfigurationARN)

NamesOf(seq) == [i \in 1..Len(seq) |-> seq[i].name]

Range(seq) == {seq[i] : i \in 1..Len(seq)}

Count(seq, x) == Cardinality({i \in 1..Len(seq) : seq[i] = x})

IsPermutation(s, t) ==
    /\ Len(s) = Len(t)
    /\ \A x \in Range(s) \cup Range(t) : Count(s, x) = Count(t, x)

\* s is t with elements left out, the order kept.
IsSubsequence(s, t) ==
    \E keep \in SUBSET (1..Len(t)) :
        /\ Cardinality(keep) = Len(s)
        /\ \A i \in 1..Len(s) :
              s[i] = t[CHOOSE k \in keep : Cardinality({m \in keep : m <= k}) = i]

\* s is a run of consecutive elements of t.
IsContiguous(s, t) ==
    \E lo \in 0..Len(t) : \E hi \in lo..Len(t) : s = SubSeq(t, lo + 1, hi)

\* A slice bound written as the decimal integer i, and one the run converts
\* (it is not empty) that is no integer at all.
IsIntArg(o, i) == o = Some(IntStr(i))

BoundRange == (0 - MaxBound)..MaxBound

NonNumeric(o) ==
    /\ ~IsNone(o)
    /\ Val(o) # <<>>
    /\ \/ \E k \in 1..Len(Val(o)) : Val(o)[k] = "x"
       \/ Val(o) = <<"-">>

\* The pattern text p read directly: p is well formed when no "*" opens it
\* or follows another; its items are its characters other than "*", each
\* repeatable when a "*" follows it.
PatternValid(p) ==
    /\ p = <<>> \/ p[1] # "*"
    /\ \A q \in 1..(Len(p) - 1) : ~(p[q] = "*" /\ p[q + 1] = "*")

ItemPositions(p) == {q \in 1..Len(p) : p[q] # "*"}

Starred(p, q) == q < Len(p) /\ p[q + 1] = "*"

\* The word w is in the language of p: w splits into one segment per item, of
\* length 1 unless the item is starred, every character of a segment matching
\* the item ("." matches any character).
InLanguage(p, w) ==
    \E len \in [ItemPositions(p) -> 0..Len(w)] :
        /\ \A q \in ItemPositions(p) : ~Starred(p, q) => len[q] = 1
        /\ LET before(q) == {r \in ItemPositions(p) : r < q}
               RECURSIVE Sum(_)
               Sum(Q) == IF Q = {} THEN 0
                         ELSE LET r == CHOOSE r \in Q : TRUE
                              IN  len[r] + Sum(Q \ {r})
           IN  /\ Sum(ItemPositions(p)) = Len(w)
               /\ \A q \in ItemPositions(p) :
                     \A k \in 1..len[q] :
                         p[q] = "." \/ p[q] = w[Sum(before(q)) + k]

\* Some prefix of the name, the empty one included, is in the language.
PrefixMatches(p, name) ==
    \E k \in 0..Len(name) : InLanguage(p, SubSeq(name, 1, k))

\* The half-open range [lo, hi) of seq, positions counted from 0.
HalfOpen(seq, lo, hi) ==
    [k \in 1..(IF hi > lo THEN hi - lo ELSE 0) |-> seq[lo + k]]

\* A bound as the claim reads it: negative counts from the end, and the
\* position is clamped into 0..n.
FromEnd(i, n) == IF i < 0 THEN n + i ELSE i

Clamp(x, n) == IF x < 0 THEN 0 ELSE IF x > n THEN n ELSE x

\* ------------------------------------------------------------ the claims

\* C1, as claimed: when sort is true and a run that got to the try block has
\* a sort_start or sort_end that is not an integer, the run ends in the
\* structured failure whose message asks for numeric values, and emits no
\* results.
C1_NonNumericBoundFailsValidation ==
    (/\ Done
     /\ SortTrue
     /\ outcome.step \in {"slice", "exit"}
     /\ NonNumeric(args.sort_start) \/ NonNumeric(args.sort_end))
    => /\ outcome.kind = "fail_json"
       /\ outcome.msg = MsgNumeric
       /\ IsNone(outcome.results)

\* C2, as claimed: a run whose fetch fails (the command exits non-zero or
\* cannot be run, or its output is no JSON) ends in a structured failure and
\* emits no results.
C2_FetchFailureIsStructured ==
    (/\ Done
     /\ RegionSupplied
     /\ source.exit # "ok" \/ ~source.stdout.wellformed)
    => /\ outcome.kind = "fail_json"
       /\ IsNone(outcome.results)

\* C2, amended: a run whose fetch fails ends with the underlying exception
\* uncaught (CalledProcessError or OSError from check_output, ValueError from
\* json.loads), not with a structured failure, and emits no
\* results.
C2_FetchFailurePropagatesUncaught ==
    (Done /\ RegionSupplied)
    => /\ source.exit = "nonzero" => outcome = Uncaught("CalledProcessError", "fetch")
       /\ source.exit = "oserror" => outcome = Uncaught("OSError", "fetch")
       /\ (source.exit = "ok" /\ ~source.stdout.wellformed)
             => outcome = Uncaught("ValueError", "parse")
       /\ (source.exit # "ok" \/ ~source.stdout.wellformed)
             => IsNone(outcome.results)

C2_Witness ==
    /\ Done
    /\ source.exit = "nonzero"
    /\ fetchCalls = 1
    /\ outcome.kind = "exception"
    /\ outcome.exc = "CalledProcessError"

\* The arguments make no later step fail: name_regex is absent or well
\* formed, and no bound the slice converts is non-numeric.
BenignArgs ==
    /\ IsNone(args.name_regex) \/ PatternValid(Val(args.name_regex))
    /\ ~SortTrue \/ (~NonNumeric(args.sort_start) /\ ~NonNumeric(args.sort_end))

\* The response is empty or malformed: a JSON document with an empty list,
\* with no list, or with an entry lacking its name or its ARN.
ResponseEmpty == SourceListed /\ SourceEntries = <<>>

ResponseLacksList == source.stdout.wellformed /\ ~SourceListed

ResponseLacksField ==
    SourceListed /\ \E i \in 1..Len(SourceEntries) : ~EntryComplete(SourceEntries[i])

\* C3, as claimed: when the call succeeds and the response is empty or
\* malformed, the run finishes successfully with an empty results list
\* (the arguments being such that no later step fails).
C3_MalformedResponseIsZeroRecords ==
    (/\ Done
     /\ RegionSupplied
     /\ BenignArgs
     /\ source.exit = "ok"
     /\ \/ ResponseLacksList
        \/ ResponseLacksField
        \/ ResponseEmpty)
    => outcome = ExitJson(<<>>, "exit")

\* C3, amended: of these responses only the empty list is zero records (the
\* run then emits an empty results list, unless name_regex or a slice bound
\* stops it later).  Output that is no JSON raises ValueError, a document
\* without the list or an entry lacking a field raises KeyError, and no
\* results are emitted.
C3_OnlyEmptyListIsZeroRecords ==
    (Done /\ RegionSupplied /\ source.exit = "ok")
    => /\ ResponseEmpty
             => /\ outcome.step \in {"filter", "slice", "exit"}
                /\ collected = <<>>
                /\ Emitted => Output = <<>>
                /\ BenignArgs => outcome = ExitJson(<<>>, "exit")
       /\ ~source.stdout.wellformed => outcome = Uncaught("ValueError", "parse")
       /\ (ResponseLacksList \/ ResponseLacksField)
             => outcome = Uncaught("KeyError", "collect")

C3_Witness ==
    /\ Done
    /\ ResponseLacksField
    /\ Len(SourceEntries) = 2
    /\ outcome.exc = "KeyError"
    /\ fetchCalls = 1

\* The records of the source's entries, in fetch order.
Fetched ==
    [i \in 1..Len(SourceEntries) |->
        [arn  |-> Val(SourceEntries[i].LaunchConfigurationARN),
         name |-> Val(SourceEntries[i].LaunchConfigurationName)]]

\* C4: the results a run emits are fetched records that pass the name filter
\* and are no more than were fetched; they are a run of consecutive elements
\* of the filtered sequence as the sort left it, which without sort is the
\* filtered sequence in fetch order.
C4_OutputIsFilteredSubrange ==
    (Done /\ Emitted)
    => /\ Len(Output) <= Len(Fetched)
       /\ Range(Output) \subseteq Range(Fetched)
       /\ Truthy(args.name_regex)
             => \A i \in 1..Len(Output) :
                    PrefixMatches(Val(args.name_regex), Output[i].name)
       /\ IsSubsequence(filtered, Fetched)
       /\ IsPermutation(ordered, filtered)
       /\ IsContiguous(Output, ordered)
       /\ ~SortTrue => (ordered = filtered /\ IsSubsequence(Output, Fetched))

C4_Witness ==
    /\ Done
    /\ Emitted
    /\ SortTrue
    /\ Len(Fetched) = 3
    /\ Len(filtered) = 2
    /\ Len(Output) = 1
    /\ ordered # filtered

\* C5: with sort true and sort_start / sort_end each absent or an integer,
\* one of them at least an integer, a run that gets to the slice emits the
\* half-open range [start, end) of the sorted sequence: a missing start is 0,
\* a missing end the length, a negative bound counts from the end, and a
\* bound out of range is clamped.
C5_SliceIsHalfOpenRange ==
    \A i, j \in BoundRange \cup {MaxBound + 1} :
        (/\ Done
         /\ SortTrue
         /\ outcome.step \in {"slice", "exit"}
         /\ i <= MaxBound \/ j <= MaxBound
         /\ IF i <= MaxBound THEN IsIntArg(args.sort_start, i) ELSE IsNone(args.sort_start)
         /\ IF j <= MaxBound THEN IsIntArg(args.sort_end, j) ELSE IsNone(args.sort_end))
        => LET n == Len(ordered)
               lo == IF i <= MaxBound THEN Clamp(FromEnd(i, n), n) ELSE 0
               hi == IF j <= MaxBound THEN Clamp(FromEnd(j, n), n) ELSE n
           IN  outcome = ExitJson(HalfOpen(ordered, lo, hi), "exit")

C5_Witness ==
    /\ Done
    /\ SortTrue
    /\ args.sort_start = Some(<<"1">>)
    /\ args.sort_end = Some(<<"2">>)
    /\ NamesOf(ordered) = << <<"a">>, <<"a", "b">>, <<"b">> >>
    /\ Emitted
    /\ NamesOf(Output) = << <<"a", "b">> >>

\* C6: without sort true, how the run ends (its results in fetch order, or
\* its failure) is what it is with sort_start and sort_end both absent,
\* whatever the two are.
C6_BoundsIgnoredWithoutSort ==
    (Done /\ ~SortTrue)
    => /\ outcome = MainOutcome([args EXCEPT !.sort_start = None, !.sort_end = None],
                                source)
       /\ Emitted => Output = filtered /\ IsSubsequence(Output, Fetched)

C6_Witness ==
    /\ Done
    /\ args.sort = Some(FALSE)
    /\ args.sort_start = Some(<<"x">>)
    /\ args.sort_end = Some(<<"1">>)
    /\ Emitted
    /\ Len(Output) = 3
    /\ NamesOf(Output) # NamesOf(PySort(Output, FALSE))

\* C7: with sort true the names a run emits never decrease when sort_order
\* is ascending (or absent) and never increase when it is descending, and
\* the sorted sequence is a permutation of the filtered one.
C7_SortedByName ==
    (SortTrue /\ PastSort)
    => /\ IsPermutation(ordered, filtered)
       /\ \A i \in 1..(Len(ordered) - 1) :
             IF Descending
             THEN ~StrLess(ordered[i].name, ordered[i + 1].name)
             ELSE ~StrLess(ordered[i + 1].name, ordered[i].name)
       /\ (Done /\ Emitted)
             => \A i \in 1..(Len(Output) - 1) :
                    IF Descending
                    THEN ~StrLess(Output[i].name, Output[i + 1].name)
                    ELSE ~StrLess(Output[i + 1].name, Output[i].name)

C7_Witness ==
    /\ Done
    /\ SortTrue
    /\ Descending
    /\ Emitted
    /\ NamesOf(collected) = << <<"b">>, <<"a">>, <<"a", "b">> >>
    /\ NamesOf(Output) = << <<"b">>, <<"a", "b">>, <<"a">> >>

\* C8: with a name_regex the filter keeps exactly the
\* fetched records of whose name some prefix matches the pattern, in their
\* order; without name_regex it keeps them all.
C8_FilterKeepsPrefixMatches ==
    PastFilter
    => /\ collected = Fetched
       /\ ~IsNone(args.name_regex)
             => filtered = SelectSeq(collected,
                               LAMBDA r : PrefixMatches(Val(args.name_regex), r.name))
       /\ IsNone(args.name_regex)
             => (filtered = collected /\ Len(filtered) = Len(Fetched))

C8_Witness ==
    /\ Done
    /\ Emitted
    /\ args.name_regex = Some(<<"b">>)
    /\ NamesOf(collected) = << <<"a", "b">>, <<"b", "a">>, <<"b">> >>
    /\ NamesOf(filtered) = << <<"b", "a">>, <<"b">> >>

\* C9: when region is supplied under neither its name nor an alias, the run
\* fails as the module is constructed and the external source is never
\* called.
C9_MissingRegionFailsBeforeFetch ==
    ~RegionSupplied
    => /\ fetchCalls = 0
       /\ pc \in {"construct", "done"}
       /\ Done => (outcome = FailJson(MsgMissingRegion, "construct") /\ IsNone(outcome.results))

C9_Witness ==
    /\ Done
    /\ ~RegionSupplied
    /\ outcome.kind = "fail_json"
    /\ fetchCalls = 0

\* The run is ended by name_regex (re.compile raised) or by a slice bound
\* (int() raised).
EndedByRegex == Done /\ outcome.step = "filter"

EndedByBound == Done /\ outcome.step = "slice"

====
